---------------------------- MODULE Spec2Model ----------------------------
(***************************************************************************)
(* AwsController (src/modules/aws_controller.py): the orchestration facade *)
(* of the attack range.  The controller is modelled together with the      *)
(* external collaborators it drives: the cloud inventory (images and       *)
(* instances), terraform, and the packer builder process whose standard    *)
(* output the controller reads through a pipe.                             *)
(*                                                                         *)
(* calls, logs and stdout are the transcript of the operation in progress  *)
(* (or, when pc = "idle", of the operation that ran last): every external  *)
(* call issued, every logger message, everything printed.                  *)
(***************************************************************************)
EXTENDS Naturals, Sequences, FiniteSets, TLC

(* ------------------------------ bounds -------------------------------- *)

\* The builder process writes at most MaxLines lines to its standard output.
MaxLines == 2

\* The pipe between the builder and the controller holds at most PipeCap lines.
PipeCap == 2

(* --------------------------- string helpers --------------------------- *)

\* str.startswith
StartsWith(s, p) ==
    Len(s) >= Len(p) /\ SubSeq(s, 1, Len(p)) = p

\* The characters bytes.strip() removes.
Whitespace == {" ", "\t", "\n", "\r"}

RECURSIVE LStrip(_)
LStrip(s) ==
    IF Len(s) > 0 /\ SubSeq(s, 1, 1) \in Whitespace
    THEN LStrip(SubSeq(s, 2, Len(s)))
    ELSE s

RECURSIVE RStrip(_)
RStrip(s) ==
    IF Len(s) > 0 /\ SubSeq(s, Len(s), Len(s)) \in Whitespace
    THEN RStrip(SubSeq(s, 1, Len(s) - 1))
    ELSE s

\* bytes.strip()
Strip(s) == RStrip(LStrip(s))

\* The elements of a sequence, in the order of a for loop, as a set.
Range(q) == {q[k] : k \in 1..Len(q)}

(* --------------------------- configuration ---------------------------- *)

BaseConfig ==
    [aws |-> [region |-> "eu-central-1", private_key_path |-> "~/.ssh/ar.key"],
     general |-> [key_name |-> "kn", attack_range_name |-> "ar",
                  attack_range_password |-> "Pl3ase-k1Ll-me:p"],
     splunk_server |-> [image |-> "splunk-v3-0-0", install_es |-> "0"],
     windows_servers |-> << [image |-> "windows-2016-v3-0-0"] >>,
     linux_servers |-> << >>,
     nginx_server |-> [nginx_server |-> "0", image |-> "nginx-web-proxy-v3-0-0"],
     simulation |-> [prelude |-> "0"]]

\* The configurations the controller is constructed with.
Configs ==
    { BaseConfig,
      [BaseConfig EXCEPT !.nginx_server.nginx_server = "1",
                         !.splunk_server.install_es = "1",
                         !.simulation.prelude = "1",
                         !.windows_servers = << [image |-> "windows-2019-v3-0-0"],
                                                [image |-> "windows-2019-v3-0-0"] >>],
      [BaseConfig EXCEPT !.windows_servers = << >>,
                         !.linux_servers = << [image |-> "linux-v3-0-0"],
                                              [image |-> "kali-v3-0-0"] >>] }

\* build: the list of required images.
RequiredImages(cfg) ==
    << cfg.splunk_server.image >>
        \o [k \in 1..Len(cfg.windows_servers) |-> cfg.windows_servers[k].image]
        \o [k \in 1..Len(cfg.linux_servers) |-> cfg.linux_servers[k].image]
        \o (IF cfg.nginx_server.nginx_server = "1"
            THEN << cfg.nginx_server.image >>
            ELSE << >>)

(* ------------------------- cloud environment -------------------------- *)

\* The images whose whereabouts the cloud is asked for: those build requires.
ImageNames(cfg) == Range(RequiredImages(cfg))

None == "None"

\* What aws_service.ami_available_other_region returns for an image found
\* in no other region (a result that is false in a condition).
NoImage == [image_id |-> None, region |-> None]

\* What aws_service.ami_available_other_region returns for an image found
\* in another region.
OtherRegionImage == [image_id |-> "ami-0f3a", region |-> "us-west-2"]

SplunkInstance(cfg) ==
    "ar-splunk-" \o cfg.general.key_name \o "-" \o cfg.general.attack_range_name

WindowsInstance(cfg) ==
    "ar-win-" \o cfg.general.key_name \o "-" \o cfg.general.attack_range_name \o "-0"

ZeekInstance(cfg) ==
    "ar-zeek-" \o cfg.general.key_name \o "-" \o cfg.general.attack_range_name

\* The instances of a range, in the order the inventory query lists them.
InstanceOrder(cfg) == << SplunkInstance(cfg), WindowsInstance(cfg), ZeekInstance(cfg) >>

PublicIp(cfg, name) ==
    IF name = SplunkInstance(cfg) THEN "18.0.0.1"
    ELSE IF name = WindowsInstance(cfg) THEN "18.0.0.2"
    ELSE "18.0.0.3"

Absent == "absent"

RECURSIVE SelectPresent(_, _)
SelectPresent(names, inst) ==
    IF names = << >> THEN << >>
    ELSE (IF inst[Head(names)] = Absent THEN << >>
          ELSE << [name |-> Head(names), state |-> inst[Head(names)]] >>)
         \o SelectPresent(Tail(names), inst)

\* aws_service.get_all_instances(key_name, attack_range_name, region)
GetAllInstances(cfg, inst) ==
    LET found == SelectPresent(InstanceOrder(cfg), inst)
    IN  [k \in 1..Len(found) |->
            [Name |-> found[k].name,
             State |-> found[k].state,
             PublicIp |-> IF found[k].state = "running"
                          THEN PublicIp(cfg, found[k].name) ELSE None]]

\* aws_service.change_ec2_state(instances, state, logger, region)
ChangeEc2State(inst, listed, target) ==
    [n \in DOMAIN inst |->
        IF \E k \in 1..Len(listed) : listed[k].Name = n THEN target ELSE inst[n]]

\* The initial inventories: no range, a running range, a stopped range, a
\* range that is partly stopped.
Inventories(cfg) ==
    LET names == Range(InstanceOrder(cfg))
    IN  { [n \in names |-> Absent],
          [n \in names |-> IF n = ZeekInstance(cfg) THEN Absent ELSE "running"],
          [n \in names |-> IF n = ZeekInstance(cfg) THEN Absent ELSE "stopped"],
          [n \in names |-> IF n = SplunkInstance(cfg) THEN "stopped" ELSE "running"] }

(* ------------------------------- state -------------------------------- *)

VARIABLES
    config,       \* self.config
    pc,           \* where the controller is: "new", "idle", "build_loop",
                  \* "packer_readline", "packer_poll", "packer_returned",
                  \* "exited" (sys.exit), "aborted" (an exception left build)
    op,           \* the operation in progress or run last
    exitCode,     \* << c >> after sys.exit(c), << >> while the program runs
    terraform,    \* whether self.terraform has been created
    regionOk,     \* << b >> once aws_service.check_region answered b
    images,       \* build: the list images
    idx,          \* build: the position of the for loop in images
    avail,        \* cloud: the images available in the configured region
    other,        \* cloud: image -> its copy in another region, or NoImage
    instances,    \* cloud: instance name -> power state, or Absent
    targetState,  \* cloud: the power state requested last, None before
    proc,         \* builder process: "none", "running", "exited"
    returncode,   \* builder process: << its exit code >>, << >> while it runs
    stdoutOpen,   \* builder process: whether it still holds its stdout open
    nWritten,     \* builder process: the number of lines written so far
    pipe,         \* the lines written and not yet read
    output,       \* packer: the local variable output
    printed,      \* packer: what the reader loop has printed
    calls,        \* transcript: the external calls issued
    logs,         \* transcript: the logger messages
    stdout        \* transcript: what show printed

vars ==
    << config, pc, op, exitCode, terraform, regionOk, images, idx, avail, other,
       instances, targetState, proc, returncode, stdoutOpen, nWritten, pipe,
       output, printed, calls, logs, stdout >>

ctlVars == << config, terraform, regionOk >>
buildVars == << images, idx >>
imageVars == << avail, other >>
procVars == << proc, returncode, stdoutOpen, nWritten, pipe, output, printed >>

Region == config.aws.region

Init ==
    /\ config \in Configs
    /\ pc = "new"
    /\ op = "init"
    /\ exitCode = << >>
    /\ terraform = FALSE
    /\ regionOk = << >>
    /\ images = << >>
    /\ idx = 0
    /\ avail \in SUBSET ImageNames(config)
    /\ other \in [ImageNames(config) -> {NoImage, OtherRegionImage}]
    /\ instances \in Inventories(config)
    /\ targetState = None
    /\ proc = "none"
    /\ returncode = << >>
    /\ stdoutOpen = FALSE
    /\ nWritten = 0
    /\ pipe = << >>
    /\ output = ""
    /\ printed = << >>
    /\ calls = << >>
    /\ logs = << >>
    /\ stdout = << >>

(* ---------------------------- constructor ----------------------------- *)

\* __init__ without the sys.exit(1): the error is logged and construction
\* goes on.
AfterRegionCheckNoExit(ok) ==
    /\ terraform' = TRUE
    /\ logs' = IF ok THEN << >>
               ELSE << "AWS cli region and region in config file are not the same." >>
    /\ pc' = "idle"
    /\ exitCode' = exitCode

\* __init__: what follows the region check.
AfterRegionCheck(ok) ==
    IF ok
    THEN /\ terraform' = TRUE
         /\ logs' = << >>
         /\ pc' = "idle"
         /\ exitCode' = exitCode
    ELSE /\ terraform' = terraform
         /\ logs' = << "AWS cli region and region in config file are not the same." >>
         /\ pc' = "exited"
         /\ exitCode' = << 1 >>

Construct ==
    /\ pc = "new"
    /\ \E ok \in BOOLEAN :
          /\ regionOk' = << ok >>
          /\ calls' = << [fn |-> "aws_service.check_region", region |-> Region] >>
          /\ AfterRegionCheck(ok)
    /\ UNCHANGED << config, op, stdout, instances, targetState >>
    /\ UNCHANGED << buildVars, imageVars, procVars >>

(* -------------------------------- show -------------------------------- *)

InventoryCall(listed) ==
    [fn |-> "aws_service.get_all_instances",
     key_name |-> config.general.key_name,
     attack_range_name |-> config.general.attack_range_name,
     region |-> Region,
     result |-> listed]

\* show without the test of the state: every row carries the address.
ShowRowAlwaysIp(instance) ==
    << instance.Name, instance.State, instance.PublicIp >>

\* show: the table row of one instance.
ShowRow(instance) ==
    IF instance.State = "running"
    THEN << instance.Name, instance.State, instance.PublicIp >>
    ELSE << instance.Name, instance.State >>

SshVia(user, ip) ==
    "\n\tSSH > ssh -i" \o config.aws.private_key_path \o " " \o user \o "@" \o ip

Credentials(user) ==
    "\n\tusername: " \o user \o " \n\tpassword: " \o config.general.attack_range_password

\* show: the connection messages of one instance.
ShowMessages(instance) ==
    IF instance.State # "running" THEN << >>
    ELSE IF StartsWith(instance.Name, "ar-splunk")
    THEN IF config.splunk_server.install_es = "1"
         THEN << "\nAccess Splunk via:\n\tWeb > https://" \o instance.PublicIp \o ":8000"
                   \o SshVia("ubuntu", instance.PublicIp) \o Credentials("admin") >>
         ELSE << "\nAccess Splunk via:\n\tWeb > http://" \o instance.PublicIp \o ":8000"
                   \o SshVia("ubuntu", instance.PublicIp) \o Credentials("admin") >>
    ELSE IF StartsWith(instance.Name, "ar-phantom")
    THEN << "\nAccess Phantom via:\n\tWeb > https://" \o instance.PublicIp
              \o SshVia("centos", instance.PublicIp) \o Credentials("admin") >>
    ELSE IF StartsWith(instance.Name, "ar-win")
    THEN << "\nAccess Windows via:\n\tRDP > rdp://" \o instance.PublicIp \o ":3389"
              \o Credentials("Administrator") >>
    ELSE IF StartsWith(instance.Name, "ar-linux")
    THEN << "\nAccess Linux via:" \o SshVia("ubuntu", instance.PublicIp)
              \o Credentials("ubuntu") >>
    ELSE IF StartsWith(instance.Name, "ar-kali")
    THEN << "\nAccess Kali via:" \o SshVia("kali", instance.PublicIp)
              \o Credentials("kali") >>
    ELSE IF StartsWith(instance.Name, "ar-nginx")
    THEN << "\nAccess Nginx Web Proxy via:" \o SshVia("ubuntu", instance.PublicIp)
              \o Credentials("kali") >>
    ELSE << >>

RECURSIVE Flatten(_)
Flatten(qq) ==
    IF qq = << >> THEN << >> ELSE Head(qq) \o Flatten(Tail(qq))

\* show: splunk_ip after the loop over the instances.
SplunkIp(listed) ==
    LET hits == {k \in 1..Len(listed) :
                    /\ listed[k].State = "running"
                    /\ StartsWith(listed[k].Name, "ar-splunk")}
    IN  IF hits = {} THEN ""
        ELSE listed[CHOOSE k \in hits : \A j \in hits : j <= k].PublicIp

\* The contents get_prelude_token finds in the token file ("" when it
\* cannot be read).
PreludeTokens == {"", "b2p3-token"}

PreludeMessage(listed, token) ==
    IF config.simulation.prelude = "1"
    THEN << "\nAccess Prelude Operator UI via:\n\tredirector FQDN > " \o SplunkIp(listed)
              \o "\n\tToken: " \o token
              \o "\n\tSee guide details: https://github.com/splunk/attack_range/wiki/Prelude-Operator" >>
    ELSE << >>

NoInstancesError == "ERROR: Can't find configured Attack Range Instances"

\* print(text)
Text(text) == [kind |-> "text", text |-> text]

\* print(tabulate(rows, headers=headers))
Table(rows, headers) == [kind |-> "table", headers |-> headers, rows |-> rows]

\* show: everything it prints for the instances listed.
ShowOutput(listed, token) ==
    LET response == [k \in 1..Len(listed) |-> ShowRow(listed[k])]
        messages == Flatten([k \in 1..Len(listed) |-> ShowMessages(listed[k])])
                        \o PreludeMessage(listed, token)
        instances_running == \E k \in 1..Len(listed) : listed[k].State = "running"
    IN  << Text(""), Text("Status Virtual Machines\n") >>
        \o (IF Len(response) > 0
            THEN (IF instances_running
                  THEN << Table(response, << "Name", "Status", "IP Address" >>) >>
                       \o [k \in 1..Len(messages) |-> Text(messages[k])]
                  ELSE << Table(response, << "Name", "Status" >>) >>)
                 \o << Text("") >>
            ELSE << Text(NoInstancesError) >>)

\* show, appended to the transcript so far (build ends with a call of show).
ShowFrom(callsIn, logsIn, inst, token) ==
    LET listed == GetAllInstances(config, inst)
    IN  /\ calls' = Append(callsIn, InventoryCall(listed))
        /\ logs' = Append(logsIn, "[action] > show\n")
        /\ stdout' = ShowOutput(listed, token)

Show ==
    /\ pc = "idle"
    /\ op' = "show"
    /\ \E token \in PreludeTokens : ShowFrom(<< >>, << >>, instances, token)
    /\ UNCHANGED << pc, exitCode, instances, targetState >>
    /\ UNCHANGED << ctlVars, buildVars, imageVars, procVars >>

(* --------------------------- stop and resume -------------------------- *)

StopState == "stopped"

\* resume written as a copy of stop.
ResumeStateCopied == "stopped"

ResumeState == "running"

\* stop and resume: list the instances, request the target state for them.
RequestState(target) ==
    LET listed == GetAllInstances(config, instances)
    IN  /\ calls' = << InventoryCall(listed),
                       [fn |-> "aws_service.change_ec2_state", instances |-> listed,
                        state |-> target, region |-> Region] >>
        /\ instances' = ChangeEc2State(instances, listed, target)
        /\ targetState' = target
        /\ logs' = << >>
        /\ stdout' = << >>

Stop ==
    /\ pc = "idle"
    /\ op' = "stop"
    /\ RequestState(StopState)
    /\ UNCHANGED << pc, exitCode >>
    /\ UNCHANGED << ctlVars, buildVars, imageVars, procVars >>

Resume ==
    /\ pc = "idle"
    /\ op' = "resume"
    /\ RequestState(ResumeState)
    /\ UNCHANGED << pc, exitCode >>
    /\ UNCHANGED << ctlVars, buildVars, imageVars, procVars >>

(* ------------------------------ simulate ------------------------------ *)

\* The values of the engine argument: the two engines and one other value.
Engines == {"ART", "PurpleSharp", "Prelude"}

ArtDispatch(engine, target, technique) ==
    IF engine = "ART"
    THEN << [fn |-> "ArtSimulationController.simulate",
             target |-> target, technique |-> technique] >>
    ELSE << >>

PurplesharpDispatch(engine, target, technique, playbook) ==
    IF engine = "PurpleSharp"
    THEN << [fn |-> "PurplesharpSimulationController.simulate",
             target |-> target, technique |-> technique, playbook |-> playbook] >>
    ELSE << >>

Simulate ==
    /\ pc = "idle"
    /\ op' = "simulate"
    /\ \E engine \in Engines :
          /\ calls' = << [fn |-> "simulate", engine |-> engine] >>
                        \o ArtDispatch(engine, WindowsInstance(config), "T1003.001")
                        \o PurplesharpDispatch(engine, WindowsInstance(config),
                                               "T1003.001", "playbook.pb")
    /\ logs' = << "[action] > simulate\n" >>
    /\ stdout' = << >>
    /\ UNCHANGED << pc, exitCode, instances, targetState >>
    /\ UNCHANGED << ctlVars, buildVars, imageVars, procVars >>

(* ------------------------------ destroy ------------------------------- *)

\* The return codes of a terraform run.
ReturnCodes == {0, 1}

DestroyedMessage == "attack_range has been destroy using terraform successfully"

\* destroy: what is logged after terraform destroy returned return_code.
DestroyLog(return_code) == << DestroyedMessage >>

Destroy ==
    /\ pc = "idle"
    /\ op' = "destroy"
    /\ \E return_code \in ReturnCodes :
          /\ calls' = << [fn |-> "terraform.destroy", auto_approve |-> TRUE,
                          return_code |-> return_code] >>
          /\ logs' = << "[action] > destroy\n" >> \o DestroyLog(return_code)
          /\ instances' = IF return_code = 0
                          THEN [n \in DOMAIN instances |-> Absent]
                          ELSE instances
    /\ stdout' = << >>
    /\ UNCHANGED << pc, exitCode, targetState >>
    /\ UNCHANGED << ctlVars, buildVars, imageVars, procVars >>

(* ------------------------------- packer ------------------------------- *)

\* packer with a last branch that takes every other name for Windows 2019.
PackerTargetFallThrough(image_name) ==
    IF StartsWith(image_name, "splunk")
    THEN [only_cmd_arg |-> "amazon-ebs.splunk-ubuntu-18-04",
          path_packer_file |-> "packer/splunk_server/splunk-ubuntu.pkr.hcl"]
    ELSE IF StartsWith(image_name, "linux")
    THEN [only_cmd_arg |-> "amazon-ebs.ubuntu-18-04",
          path_packer_file |-> "packer/linux_server/linux-ubuntu-18-04.pkr.hcl"]
    ELSE IF StartsWith(image_name, "nginx")
    THEN [only_cmd_arg |-> "amazon-ebs.nginx-web-proxy",
          path_packer_file |-> "packer/nginx_server/nginx_web_proxy.pkr.hcl"]
    ELSE IF StartsWith(image_name, "windows-2016")
    THEN [only_cmd_arg |-> "amazon-ebs.windows",
          path_packer_file |-> "packer/windows_server/windows_2016.pkr.hcl"]
    ELSE [only_cmd_arg |-> "amazon-ebs.windows",
          path_packer_file |-> "packer/windows_server/windows_2019.pkr.hcl"]

\* packer: only_cmd_arg and path_packer_file for an image name.
PackerTarget(image_name) ==
    IF StartsWith(image_name, "splunk")
    THEN [only_cmd_arg |-> "amazon-ebs.splunk-ubuntu-18-04",
          path_packer_file |-> "packer/splunk_server/splunk-ubuntu.pkr.hcl"]
    ELSE IF StartsWith(image_name, "linux")
    THEN [only_cmd_arg |-> "amazon-ebs.ubuntu-18-04",
          path_packer_file |-> "packer/linux_server/linux-ubuntu-18-04.pkr.hcl"]
    ELSE IF StartsWith(image_name, "nginx")
    THEN [only_cmd_arg |-> "amazon-ebs.nginx-web-proxy",
          path_packer_file |-> "packer/nginx_server/nginx_web_proxy.pkr.hcl"]
    ELSE IF StartsWith(image_name, "windows-2016")
    THEN [only_cmd_arg |-> "amazon-ebs.windows",
          path_packer_file |-> "packer/windows_server/windows_2016.pkr.hcl"]
    ELSE IF StartsWith(image_name, "windows-2019")
    THEN [only_cmd_arg |-> "amazon-ebs.windows",
          path_packer_file |-> "packer/windows_server/windows_2019.pkr.hcl"]
    ELSE [only_cmd_arg |-> "", path_packer_file |-> ""]

PopenCall(image_name) ==
    [fn |-> "subprocess.Popen",
     image_name |-> image_name,
     args |-> << "packer", "build", "-force",
                 "-only=" \o PackerTarget(image_name).only_cmd_arg,
                 PackerTarget(image_name).path_packer_file >>]

\* packer, up to the reader loop: refuse the image name or start the builder
\* (subprocess.Popen is taken to start the process).
PackerEnter(callsIn, logsIn, image_name) ==
    LET logs1 == Append(logsIn, "Create golden image for " \o image_name
                                  \o ". This can take up to 30 minutes.\n")
        calls1 == Append(callsIn, [fn |-> "packer", image_name |-> image_name])
    IN  IF PackerTarget(image_name).only_cmd_arg = ""
        THEN /\ logs' = Append(logs1, "Image not supported.")
             /\ calls' = calls1
             /\ exitCode' = << 1 >>
             /\ pc' = "exited"
             /\ UNCHANGED procVars
        ELSE /\ logs' = logs1
             /\ calls' = Append(calls1, PopenCall(image_name))
             /\ exitCode' = exitCode
             /\ pc' = "packer_readline"
             /\ proc' = "running"
             /\ returncode' = << >>
             /\ stdoutOpen' = TRUE
             /\ nWritten' = 0
             /\ pipe' = << >>
             /\ output' = ""
             /\ printed' = << >>

\* The k-th line the builder writes.
LineText(k) ==
    IF k = 1 THEN "==> amazon-ebs: Prevalidating AMI Name\n"
    ELSE IF k = 2 THEN "    amazon-ebs: Found Image ID  \r\n"
    ELSE IF k = 3 THEN "\n"
    ELSE "Build 'amazon-ebs' finished.\n"

\* Everything the builder has written so far.
Written == [k \in 1..nWritten |-> LineText(k)]

\* The exit codes of the builder.
BuilderCodes == {0, 1}

BuilderWrite ==
    /\ proc = "running"
    /\ stdoutOpen
    /\ nWritten < MaxLines
    /\ Len(pipe) < PipeCap
    /\ nWritten' = nWritten + 1
    /\ pipe' = Append(pipe, LineText(nWritten + 1))
    /\ UNCHANGED << pc, op, exitCode, instances, targetState, calls, logs, stdout >>
    /\ UNCHANGED << proc, returncode, stdoutOpen, output, printed >>
    /\ UNCHANGED << ctlVars, buildVars, imageVars >>

BuilderCloseStdout ==
    /\ proc = "running"
    /\ stdoutOpen
    /\ stdoutOpen' = FALSE
    /\ UNCHANGED << pc, op, exitCode, instances, targetState, calls, logs, stdout >>
    /\ UNCHANGED << proc, returncode, nWritten, pipe, output, printed >>
    /\ UNCHANGED << ctlVars, buildVars, imageVars >>

\* The builder exits; a build that succeeded has registered the image in
\* the configured region.
BuilderExit ==
    /\ proc = "running"
    /\ \E code \in BuilderCodes :
          /\ returncode' = << code >>
          /\ avail' = IF code = 0 THEN avail \cup {images[idx]} ELSE avail
    /\ proc' = "exited"
    /\ stdoutOpen' = FALSE
    /\ UNCHANGED << pc, op, exitCode, instances, targetState, calls, logs, stdout >>
    /\ UNCHANGED << nWritten, pipe, output, printed, other >>
    /\ UNCHANGED << ctlVars, buildVars >>

\* process.stdout.readline(): the next line, or "" at end of file; it blocks
\* while the pipe is empty and the builder holds it open.
PackerReadline ==
    /\ pc = "packer_readline"
    /\ \/ /\ pipe # << >>
          /\ output' = Head(pipe)
          /\ pipe' = Tail(pipe)
       \/ /\ pipe = << >>
          /\ ~stdoutOpen
          /\ output' = ""
          /\ pipe' = pipe
    /\ pc' = "packer_poll"
    /\ UNCHANGED << op, exitCode, instances, targetState, calls, logs, stdout >>
    /\ UNCHANGED << proc, returncode, stdoutOpen, nWritten, printed >>
    /\ UNCHANGED << ctlVars, buildVars, imageVars >>

\* The loop leaving on an empty read instead of on the exit of the process.
PollBreaksOnEmptyRead == output = ""

\* process.poll() is not None
PollBreaks == returncode # << >>

\* The reader loop after readline: break, or print the line and go on.
PackerPoll ==
    /\ pc = "packer_poll"
    /\ IF PollBreaks
       THEN /\ pc' = "packer_returned"
            /\ printed' = printed
       ELSE /\ pc' = "packer_readline"
            /\ printed' = IF output # "" THEN Append(printed, Strip(output)) ELSE printed
    /\ UNCHANGED << op, exitCode, instances, targetState, calls, logs, stdout >>
    /\ UNCHANGED << proc, returncode, stdoutOpen, nWritten, pipe, output >>
    /\ UNCHANGED << ctlVars, buildVars, imageVars >>

(* -------------------------------- build ------------------------------- *)

BuildStart ==
    /\ pc = "idle"
    /\ op' = "build"
    /\ images' = RequiredImages(config)
    /\ idx' = 1
    /\ pc' = "build_loop"
    /\ calls' = << >>
    /\ logs' = << "[action] > build\n",
                  "Check if images are available in region " \o Region >>
    /\ stdout' = << >>
    /\ UNCHANGED << exitCode, instances, targetState >>
    /\ UNCHANGED << ctlVars, imageVars, procVars >>

\* build with the two lookups in the other order: the other regions are
\* searched first.
ImageBranchOtherFirst(image) ==
    IF other[image] # NoImage THEN "copy"
    ELSE IF image \in avail THEN "available"
    ELSE "build"

\* build: the branch taken for one image.
ImageBranch(image) ==
    IF image \in avail THEN "available"
    ELSE IF other[image] # NoImage THEN "copy"
    ELSE "build"

AmiAvailableCall(image) ==
    [fn |-> "aws_service.ami_available", image |-> image, region |-> Region,
     result |-> image \in avail]

OtherRegionCall(image) ==
    [fn |-> "aws_service.ami_available_other_region", image |-> image,
     result |-> other[image]]

CopyImageCall(image, result) ==
    [fn |-> "aws_service.copy_image", image |-> image, image_id |-> result.image_id,
     source_region |-> result.region, dest_region |-> Region]

\* aws_service.copy_image returns once the copy is available in the
\* destination region, or raises.
CopyOutcomes == {"copied", "raised"}

NotAvailableLogs(image) ==
    << "Image " \o image \o " is not available in region " \o Region,
       "Checking if image " \o image \o " is available in other regions." >>

\* build: one pass of the loop over the images.
BuildImage ==
    /\ pc = "build_loop"
    /\ idx <= Len(images)
    /\ LET image == images[idx]
           branch == ImageBranch(image)
       IN  \/ /\ branch = "available"
              /\ calls' = Append(calls, AmiAvailableCall(image))
              /\ logs' = Append(logs, "Image " \o image \o " is available in region "
                                        \o Region)
              /\ idx' = idx + 1
              /\ UNCHANGED << pc, exitCode, avail, procVars >>
           \/ /\ branch = "copy"
              /\ calls' = calls \o << AmiAvailableCall(image), OtherRegionCall(image),
                                      CopyImageCall(image, other[image]) >>
              /\ logs' = logs \o NotAvailableLogs(image)
                           \o << "Found image " \o image \o " in region "
                                   \o other[image].region \o ". Copy it to region "
                                   \o Region >>
              /\ \E outcome \in CopyOutcomes :
                    IF outcome = "copied"
                    THEN /\ avail' = avail \cup {image}
                         /\ idx' = idx + 1
                         /\ pc' = pc
                    ELSE /\ avail' = avail
                         /\ idx' = idx
                         /\ pc' = "aborted"
              /\ UNCHANGED << exitCode, procVars >>
           \/ /\ branch = "build"
              /\ PackerEnter(calls \o << AmiAvailableCall(image), OtherRegionCall(image) >>,
                             logs \o NotAvailableLogs(image)
                                 \o << "Image " \o image \o " need to be built with packer." >>,
                             image)
              /\ UNCHANGED << idx, avail >>
    /\ UNCHANGED << op, images, other, instances, targetState, stdout >>
    /\ UNCHANGED ctlVars

\* packer has returned: the next pass of the loop.
BuildNext ==
    /\ pc = "packer_returned"
    /\ pc' = "build_loop"
    /\ idx' = idx + 1
    /\ proc' = "none"
    /\ returncode' = << >>
    /\ nWritten' = 0
    /\ pipe' = << >>
    /\ output' = ""
    /\ printed' = << >>
    /\ UNCHANGED << op, exitCode, images, stdoutOpen, instances, targetState,
                    calls, logs, stdout >>
    /\ UNCHANGED << ctlVars, imageVars >>

BuiltMessage == "attack_range has been built using terraform successfully"

\* build: what is logged after terraform apply returned return_code.
ApplyLog(return_code) ==
    IF return_code = 0 THEN << BuiltMessage >> ELSE << >>

\* The instances a successful terraform apply leaves running.
Provisioned(cfg, inst) ==
    [n \in DOMAIN inst |->
        IF n = SplunkInstance(cfg) THEN "running"
        ELSE IF n = WindowsInstance(cfg) /\ Len(cfg.windows_servers) > 0 THEN "running"
        ELSE Absent]

\* build, after the loop: terraform apply, then show.
BuildApply ==
    /\ pc = "build_loop"
    /\ idx > Len(images)
    /\ \E return_code \in ReturnCodes, token \in PreludeTokens :
          LET inst == IF return_code = 0 THEN Provisioned(config, instances)
                      ELSE instances
          IN  /\ instances' = inst
              /\ ShowFrom(Append(calls, [fn |-> "terraform.apply", skip_plan |-> TRUE,
                                         return_code |-> return_code]),
                          logs \o ApplyLog(return_code), inst, token)
    /\ pc' = "idle"
    /\ UNCHANGED << op, exitCode, targetState >>
    /\ UNCHANGED << ctlVars, buildVars, imageVars, procVars >>

(* --------------------------- dump and replay -------------------------- *)

\* aws_service.get_single_instance_public_ip(name, key_name, attack_range_name, region)
SinglePublicIp(cfg, inst, name) ==
    IF inst[name] = "running" THEN PublicIp(cfg, name) ELSE None

Dump ==
    /\ pc = "idle"
    /\ op' = "dump"
    /\ LET dump_search == "search " \o "index=win" \o " earliest=-" \o "2h"
                              \o " latest=" \o "now" \o " | sort 0 _time"
       IN  /\ logs' = << "Dump log data", "Dumping Splunk Search: " \o dump_search,
                         "[Completed]" >>
           /\ calls' = << [fn |-> "open", file |-> "../" \o "dump.json", mode |-> "wb"],
                          [fn |-> "aws_service.get_single_instance_public_ip",
                           name |-> SplunkInstance(config)],
                          [fn |-> "splunk_sdk.export_search",
                           host |-> SinglePublicIp(config, instances, SplunkInstance(config)),
                           s |-> dump_search,
                           password |-> config.general.attack_range_password],
                          [fn |-> "close"] >>
    /\ stdout' = << >>
    /\ UNCHANGED << pc, exitCode, instances, targetState >>
    /\ UNCHANGED << ctlVars, buildVars, imageVars, procVars >>

Replay ==
    /\ pc = "idle"
    /\ op' = "replay"
    /\ LET splunk_ip == SinglePublicIp(config, instances, SplunkInstance(config))
       IN  calls' = << [fn |-> "aws_service.get_single_instance_public_ip",
                        name |-> SplunkInstance(config)],
                       [fn |-> "ansible_runner.run",
                        cmdline |-> "-i " \o splunk_ip \o ", -u " \o "ubuntu",
                        playbook |-> "ansible/data_replay.yml",
                        extravars |-> [file_name |-> "attack.log",
                                       ansible_user |-> "ubuntu",
                                       ansible_ssh_private_key_file |->
                                           config.aws.private_key_path,
                                       attack_range_password |->
                                           config.general.attack_range_password,
                                       ansible_port |-> 22,
                                       sourcetype |-> "XmlWinEventLog",
                                       source |-> "sysmon",
                                       index |-> "win"]] >>
    /\ logs' = << >>
    /\ stdout' = << >>
    /\ UNCHANGED << pc, exitCode, instances, targetState >>
    /\ UNCHANGED << ctlVars, buildVars, imageVars, procVars >>

(* --------------------------- specifications --------------------------- *)

Next ==
    \/ Construct
    \/ BuildStart
    \/ BuildImage
    \/ BuilderWrite
    \/ BuilderCloseStdout
    \/ BuilderExit
    \/ PackerReadline
    \/ PackerPoll
    \/ BuildNext
    \/ BuildApply
    \/ Destroy
    \/ Stop
    \/ Resume
    \/ Simulate
    \/ Show
    \/ Dump
    \/ Replay

Spec == Init /\ [][Next]_vars

\* A run of the build command alone: the constructor, then build.
BuildRunNext ==
    \/ Construct
    \/ BuildStart
    \/ BuildImage
    \/ BuilderWrite
    \/ BuilderCloseStdout
    \/ BuilderExit
    \/ PackerReadline
    \/ PackerPoll
    \/ BuildNext
    \/ BuildApply

\* The reader loop is the only thread of the controller and keeps running;
\* the builder process is assumed to exit eventually.
FairSpec ==
    /\ Init /\ [][BuildRunNext]_vars
    /\ WF_vars(PackerReadline)
    /\ WF_vars(PackerPoll)
    /\ WF_vars(BuilderExit)

(* --------------------- claims: reading a transcript ------------------- *)

\* The positions of the calls of fn in a transcript.
CallsOf(q, fn) == {k \in 1..Len(q) : q[k].fn = fn}

CountFn(q, fn) == Cardinality(CallsOf(q, fn))

RECURSIVE ContainsFrom(_, _, _)
ContainsFrom(s, sub, k) ==
    IF k + Len(sub) - 1 > Len(s) THEN FALSE
    ELSE IF SubSeq(s, k, k + Len(sub) - 1) = sub THEN TRUE
    ELSE ContainsFrom(s, sub, k + 1)

\* sub in s
Contains(s, sub) == ContainsFrom(s, sub, 1)

(* ------------------------------- claims ------------------------------- *)
(* C1, C4, C5 and C8 state what the claims say; TLC refutes each on the    *)
(* code as modelled.  The others hold.                                     *)

\* C1: when build invokes terraform apply, every required image is
\* available in the configured region, whatever the image copy and the
\* packer build did (a builder that exits with a non-zero code included).
C1_ImagesAvailableAtApply ==
    CallsOf(calls, "terraform.apply") # {}
        => \A image \in Range(RequiredImages(config)) : image \in avail

\* C2: region validation precedes every action.  A failed region check ends
\* the program with exit code 1 before the Terraform handle exists, and the
\* controller issues nothing but the region check; the handle and every
\* other call presuppose a region check that passed.
C2_RegionValidationFirst ==
    /\ terraform => regionOk = << TRUE >>
    /\ \A k \in 1..Len(calls) :
          calls[k].fn # "aws_service.check_region" => regionOk = << TRUE >>
    /\ regionOk = << FALSE >> =>
          /\ pc = "exited"
          /\ exitCode = << 1 >>
          /\ ~terraform
          /\ calls = << [fn |-> "aws_service.check_region", region |-> Region] >>
          /\ stdout = << >>
          /\ instances \in Inventories(config)
          /\ targetState = None
          /\ proc = "none"

\* C2 witness: the constructor has refused the region.
C2_Witness ==
    /\ regionOk = << FALSE >>
    /\ pc = "exited"
    /\ exitCode = << 1 >>

\* C4: when packer returns, every line the builder wrote has been printed
\* (stripped, as packer prints it), in the order written.
C4_AllLinesPrinted ==
    pc = "packer_returned" => printed = [k \in 1..Len(Written) |-> Strip(Written[k])]

\* C5: a simulate call dispatches to exactly one of the two simulation
\* engines, for every value of the engine argument.
C5_ExactlyOneEngine ==
    op = "simulate" =>
        CountFn(calls, "ArtSimulationController.simulate")
            + CountFn(calls, "PurplesharpSimulationController.simulate") = 1

\* C8: a message that a terraform operation finished successfully is logged
\* only when that operation returned 0.
C8_SuccessOnlyOnZero ==
    /\ BuiltMessage \in Range(logs) =>
          \E k \in CallsOf(calls, "terraform.apply") : calls[k].return_code = 0
    /\ DestroyedMessage \in Range(logs) =>
          \E k \in CallsOf(calls, "terraform.destroy") : calls[k].return_code = 0

\* C3 helper: the calls a step adds to the transcript.
C3_NewCalls == SubSeq(calls', Len(calls) + 1, Len(calls'))

\* C3 helper: what a step may add to the transcript, by the place of the
\* controller and the whereabouts of the image of the pass.
C3_Pass ==
    IF pc = "build_loop" /\ idx <= Len(images)
    THEN LET image == images[idx]
             here == image \in avail
             there == other[image]
             new == C3_NewCalls
         IN  /\ Len(calls') >= Len(calls) + 1
             /\ SubSeq(calls', 1, Len(calls)) = calls
             /\ new[1] = [fn |-> "aws_service.ami_available", image |-> image,
                          region |-> config.aws.region, result |-> here]
             /\ here => Len(new) = 1
             /\ ~here =>
                   /\ Len(new) >= 3
                   /\ new[2] = [fn |-> "aws_service.ami_available_other_region",
                                image |-> image, result |-> there]
             /\ (~here /\ there # NoImage) =>
                   /\ Len(new) = 3
                   /\ new[3] = [fn |-> "aws_service.copy_image", image |-> image,
                                image_id |-> there.image_id,
                                source_region |-> there.region,
                                dest_region |-> config.aws.region]
             /\ (~here /\ there = NoImage) =>
                   /\ new[3] = [fn |-> "packer", image_name |-> image]
                   /\ CountFn(new, "packer") = 1
                   /\ CountFn(new, "aws_service.copy_image") = 0
                   /\ \A k \in CallsOf(new, "subprocess.Popen") :
                         k = 4 /\ new[k].image_name = image
    ELSE \A k \in 1..Len(calls') :
            calls'[k].fn \in {"aws_service.copy_image", "packer", "subprocess.Popen"}
                => k <= Len(calls) /\ calls[k] = calls'[k]

\* C3: one pass of the loop of build takes exactly one branch for its
\* image.  Available in the configured region: only the lookup.  Otherwise
\* found in another region: copy_image once, with that region's image id and
\* the configured region as destination, and no packer.  Otherwise: packer
\* once for that image and no copy_image.  No other step of the controller
\* calls copy_image or packer.
C3_OneBranchPerImage == [][C3_Pass]_vars

\* C3 witness: one build has found an image in place, copied another and
\* built a third.
C3_Witness ==
    /\ op = "build"
    /\ \E k \in CallsOf(calls, "aws_service.ami_available") : calls[k].result
    /\ CallsOf(calls, "aws_service.copy_image") # {}
    /\ CallsOf(calls, "subprocess.Popen") # {}
    /\ CallsOf(calls, "terraform.apply") # {}

\* C6 helpers: the instances show listed, and what it printed.
C6_Listed == calls[Len(calls)].result

C6_Tables == {k \in 1..Len(stdout) : stdout[k].kind = "table"}

C6_Access ==
    {k \in 1..Len(stdout) :
        stdout[k].kind = "text" /\ StartsWith(stdout[k].text, "\nAccess ")}

C6_PerInstance ==
    {k \in C6_Access : ~StartsWith(stdout[k].text, "\nAccess Prelude Operator")}

C6_Running == {k \in 1..Len(C6_Listed) : C6_Listed[k].State = "running"}

\* C6: show prints the error and no table when the query returns no
\* instance; otherwise one table with one row per instance returned, with an
\* address exactly in the rows of the running instances.  Connection messages
\* are printed only when an instance is running, and each message about an
\* instance is about a running one.  show issues the inventory query and no
\* other call.
C6_ShowRenders ==
    (op = "show" \/ (op = "build" /\ pc = "idle")) =>
        /\ calls[Len(calls)].fn = "aws_service.get_all_instances"
        /\ op = "show" => Len(calls) = 1
        /\ C6_Listed = << >> =>
              /\ C6_Tables = {}
              /\ \E k \in 1..Len(stdout) : stdout[k] = Text(NoInstancesError)
        /\ C6_Listed # << >> =>
              /\ Cardinality(C6_Tables) = 1
              /\ \A k \in 1..Len(stdout) : stdout[k] # Text(NoInstancesError)
              /\ \A t \in C6_Tables :
                    /\ Len(stdout[t].rows) = Len(C6_Listed)
                    /\ \A k \in 1..Len(C6_Listed) :
                          LET row == stdout[t].rows[k]
                          IN  /\ row[1] = C6_Listed[k].Name
                              /\ row[2] = C6_Listed[k].State
                              /\ IF C6_Listed[k].State = "running"
                                 THEN Len(row) = 3 /\ row[3] = C6_Listed[k].PublicIp
                                 ELSE Len(row) = 2
        /\ C6_Access # {} => C6_Running # {}
        /\ Cardinality(C6_PerInstance) <= Cardinality(C6_Running)
        /\ \A m \in C6_PerInstance :
              \E k \in C6_Running : Contains(stdout[m].text, C6_Listed[k].PublicIp)

\* C6 witness: show has listed a stopped and a running instance and printed
\* a connection message.
C6_Witness ==
    /\ op = "show"
    /\ C6_Running # {}
    /\ \E k \in 1..Len(C6_Listed) : C6_Listed[k].State = "stopped"
    /\ C6_PerInstance # {}

\* C7 helper: the transcript of stop or resume for the instances listed.
C7_Transcript(listed, target) ==
    << [fn |-> "aws_service.get_all_instances",
        key_name |-> config.general.key_name,
        attack_range_name |-> config.general.attack_range_name,
        region |-> config.aws.region,
        result |-> listed],
       [fn |-> "aws_service.change_ec2_state", instances |-> listed,
        state |-> target, region |-> config.aws.region] >>

C7_Target == IF op' = "stop" THEN "stopped" ELSE "running"

\* C7: stop requests 'stopped' and resume requests 'running', for exactly
\* the instances the inventory query returns at the time of the call, and
\* issues no other call; the state requested last is that of the last call.
C7_StopResume ==
    /\ [][op' \in {"stop", "resume"} =>
             /\ calls' = C7_Transcript(GetAllInstances(config, instances), C7_Target)
             /\ targetState' = C7_Target]_vars
    /\ [](op = "stop" => targetState = "stopped")
    /\ [](op = "resume" => targetState = "running")

\* C7 witness: resume has been called for a range that had been stopped.
C7_Witness ==
    /\ op = "resume"
    /\ Len(calls) = 2
    /\ \E k \in 1..Len(calls[1].result) : calls[1].result[k].State = "stopped"
    /\ calls[2].state = "running"

\* C9 helper: the image families packer supports.
C9_Prefixes == {"splunk", "linux", "nginx", "windows-2016", "windows-2019"}

C9_Supported(image_name) == \E p \in C9_Prefixes : StartsWith(image_name, p)

C9_State ==
    /\ \A k \in CallsOf(calls, "subprocess.Popen") :
          /\ C9_Supported(calls[k].image_name)
          /\ calls[k].args[4] # "-only="
          /\ calls[k].args[5] # ""
          /\ \A p \in C9_Prefixes :
                StartsWith(calls[k].image_name, p)
                    => calls[k].args[5] = PackerTarget(p).path_packer_file
    /\ \A p, q \in C9_Prefixes :
          p # q => PackerTarget(p).path_packer_file # PackerTarget(q).path_packer_file
    /\ proc # "none" => C9_Supported(images[idx])
    /\ \A k \in CallsOf(calls, "packer") :
          ~C9_Supported(calls[k].image_name) =>
              /\ k = Len(calls)
              /\ pc = "exited"
              /\ exitCode = << 1 >>
              /\ logs[Len(logs)] = "Image not supported."
              /\ proc = "none"
              /\ CallsOf(calls, "terraform.apply") = {}
              /\ CallsOf(calls, "aws_service.get_all_instances") = {}
              /\ stdout = << >>
    /\ (op = "build" /\ pc = "exited") =>
          /\ calls[Len(calls)] = [fn |-> "packer", image_name |-> images[idx]]
          /\ ~C9_Supported(images[idx])

\* C9: packer starts a builder only for a supported image family, each with
\* its own template; for any other name it logs "Image not supported." and
\* exits with code 1 without starting a process, and the run issues no
\* terraform apply and no show: nothing follows the exit.
C9_UnsupportedImageExits ==
    /\ []C9_State
    /\ [][pc # "exited"]_vars

\* C9 witness: build has built one image and then met an image it does not
\* support.
C9_Witness ==
    /\ op = "build"
    /\ pc = "exited"
    /\ CallsOf(calls, "subprocess.Popen") # {}
    /\ ~C9_Supported(images[idx])

\* C10: once the builder has exited the reader loop ends, whatever the
\* builder wrote and however its lines and its exit fall between readline
\* and poll; and packer returns only after the builder has exited.
C10_ReaderLoopTerminates ==
    /\ (pc \in {"packer_readline", "packer_poll"}) ~> (pc = "packer_returned")
    /\ [](pc = "packer_returned" => proc = "exited")

\* C10 witness: packer has returned from a builder that wrote output.
C10_Witness ==
    /\ pc = "packer_returned"
    /\ nWritten > 0
    /\ proc = "exited"

=============================================================================
